---- MODULE Spec2Model ----
(***************************************************************************)
(* A model of simpy-rs: the event kernel (core::Simulation), the resource  *)
(* manager (resources::ResourceManager), the Lua process host              *)
(* (lua::LuaEngine, lua::LuaProcess, lua::api) and the scheduler           *)
(* (Simulator::run and its helpers).                                       *)
(*                                                                         *)
(* Virtual time is an f64 in the source; the model uses integers, which    *)
(* every script and caller of the model passes.  Process names are the     *)
(* integers 1..MaxProcs, the single resource name is "r".                  *)
(***************************************************************************)
EXTENDS Integers, Sequences, FiniteSets, Bags, TLC

\* ------------------------------------------------------------------ bounds
\* processes in the registry
MaxProcs == 2
\* capacity of a created resource
MaxCapacity == 2
\* duration passed to run
MaxDuration == 2
\* events scheduled on a Simulation used on its own
MaxEvents == 3
\* time or delay passed to schedule_at / schedule_after
MaxTime == 2
\* granted requests on a ResourceManager used on its own
MaxRequests == 3
\* length of a request queue of a ResourceManager used on its own
MaxQueue == 2
\* processes loaded with the client script of test_simple.rs
MaxClients == 3

ProcNames == 1..MaxProcs
ResourceNames == {"r"}

\* Priority (event.rs): High = 0, Normal = 1, Low = 2.
High == 0
Normal == 1
Low == 2
Priorities == {High, Normal, Low}

\* ------------------------------------------------------------------ time.rs
\* SimTime::new(seconds) = SimTime(seconds.max(0.0))
SimTimeNew(seconds) == IF seconds < 0 THEN 0 ELSE seconds

\* ------------------------------------------------------------ Lua scripts
\* A script body is the sequence of API calls its entry function makes.
ApiCall(kind, res, secs) ==
    [kind |-> kind, res |-> res, secs |-> secs, name |-> 0, func |-> "-"]
\* spawn(name, func)
SpawnCall(name, func) ==
    [kind |-> "Spawn", res |-> "-", secs |-> 0, name |-> name, func |-> func]

\* examples/test_simple.rs resource_test: log; request; log; wait; log; release.
ClientBody(hold) ==
    << ApiCall("Log", "-", 0), ApiCall("Request", "r", 0), ApiCall("Log", "-", 0),
       ApiCall("Wait", "-", hold), ApiCall("Log", "-", 0),
       ApiCall("Release", "r", 0) >>

\* spec.md scenario 6, p2: request(r); request(r); release(r).
GreedyBody ==
    << ApiCall("Request", "r", 0), ApiCall("Request", "r", 0),
       ApiCall("Release", "r", 0) >>

\* A body that holds r over two timed phases: request(r); wait(2); wait(1);
\* release(r).
PhasedBody ==
    << ApiCall("Request", "r", 0), ApiCall("Wait", "-", 2), ApiCall("Wait", "-", 1),
       ApiCall("Release", "r", 0) >>

\* A body whose wait is refused by the API (api.rs: seconds < 0.0).
FaultyBody == << ApiCall("Log", "-", 0), ApiCall("Wait", "-", -1) >>

\* examples/test_spawn.rs child: log; wait(2); log.
ChildBody ==
    << ApiCall("Log", "-", 0), ApiCall("Wait", "-", 2), ApiCall("Log", "-", 0) >>

\* examples/test_spawn.rs parent: log; wait(1); log; spawn(child_1, "child");
\* wait(1); log; spawn(child_2, "child"); wait(1); log.
ParentBody(child_1, child_2) ==
    << ApiCall("Log", "-", 0), ApiCall("Wait", "-", 1), ApiCall("Log", "-", 0),
       SpawnCall(child_1, "child"), ApiCall("Wait", "-", 1),
       ApiCall("Log", "-", 0), SpawnCall(child_2, "child"),
       ApiCall("Wait", "-", 1), ApiCall("Log", "-", 0) >>

\* The scripts by entry function.  The parent names its children 2 and 3: the
\* first is a name load_process may have taken, the second is not.
Scripts ==
    [ client      |-> ClientBody(1),
      slow_client |-> ClientBody(2),
      greedy      |-> GreedyBody,
      faulty      |-> FaultyBody,
      child       |-> ChildBody,
      parent      |-> ParentBody(2, 3),
      phased      |-> PhasedBody ]

\* The entry functions of the processes that use a resource.
FunctionNames == {"client", "slow_client", "greedy"}
\* The entry functions of the processes that use none: those of test_spawn.rs
\* and the failing one.
SpawnFunctionNames == {"parent", "child", "faulty"}

\* ------------------------------------------------------- resources/mod.rs
\* Resource::new
ResourceNew(capacity) ==
    [capacity |-> capacity, available |-> capacity, queue_length |-> 0,
     total_requests |-> 0]

\* ResourceManager::create: HashMap::insert, which replaces an existing entry.
RmCreateResources(rs, name, capacity) == (name :> ResourceNew(capacity)) @@ rs
RmCreateQueues(qs, name) == (name :> << >>) @@ qs

\* ResourceManager::request, its return value.
RmRequestGranted(rs, name) == name \in DOMAIN rs /\ rs[name].available > 0

\* ResourceManager::request, its effect on the resources map.
RmRequest(rs, qs, name) ==
    IF name \notin DOMAIN rs THEN rs
    ELSE IF rs[name].available > 0
    THEN [rs EXCEPT ![name].available = @ - 1, ![name].total_requests = @ + 1]
    ELSE IF name \in DOMAIN qs
    THEN [rs EXCEPT ![name].queue_length = Len(qs[name]) + 1]
    ELSE rs

RmReleaseRefreshing(rs, qs, name) ==
    IF name \notin DOMAIN rs THEN rs
    ELSE [rs EXCEPT ![name].available =
                        IF @ < rs[name].capacity THEN @ + 1 ELSE @,
                    ![name].queue_length =
                        IF name \in DOMAIN qs THEN Len(qs[name]) ELSE @]

RmReleaseUncapped(rs, qs, name) ==
    IF name \notin DOMAIN rs THEN rs
    ELSE [rs EXCEPT ![name].available = @ + 1]

\* ResourceManager::release
RmRelease(rs, qs, name) ==
    IF name \notin DOMAIN rs THEN rs
    ELSE IF rs[name].available < rs[name].capacity
    THEN [rs EXCEPT ![name].available = @ + 1,
                    ![name].queue_length =
                        IF name \in DOMAIN qs THEN Len(qs[name]) ELSE @]
    ELSE rs

\* ResourceManager::queue_request, its effect on the queues and the resources.
RmQueueRequestQueues(qs, name, process) ==
    IF name \in DOMAIN qs THEN [qs EXCEPT ![name] = Append(@, process)] ELSE qs
RmQueueRequest(rs, qs, name, process) ==
    IF name \in DOMAIN qs /\ name \in DOMAIN rs
    THEN [rs EXCEPT ![name].queue_length = Len(qs[name]) + 1]
    ELSE rs

\* ----------------------------------------------------------- core/event.rs
NewEvent(time, priority, id) == [time |-> time, priority |-> priority, id |-> id]

EventBeforeIgnoringPriority(a, b) ==
    \/ a.time < b.time
    \/ a.time = b.time /\ a.id < b.id

\* impl Ord for Event, read through BinaryHeap (a max-heap): a pops before b.
EventBefore(a, b) ==
    \/ a.time < b.time
    \/ /\ a.time = b.time
       /\ \/ a.priority < b.priority
          \/ a.priority = b.priority /\ a.id < b.id

HeapPopLatest(queue) == CHOOSE e \in queue : \A f \in queue \ {e} : EventBefore(f, e)

\* BinaryHeap::pop on a non-empty heap
HeapPop(queue) == CHOOSE e \in queue : \A f \in queue \ {e} : EventBefore(e, f)

\* ---------------------------------------------------- lua/process.rs, api.rs
\* LuaProcess::new: the coroutine is created from the entry function, not yet
\* started; state Active.
LuaProcessNew(function) ==
    [function |-> function, pos |-> 1, status |-> "Resumable", state |-> "Active",
     _current_time |-> 0, _sim_time |-> 0]

\* The Lua function now (api.rs): reads the global _sim_time of the VM.
NowFn(process) == process._sim_time

\* LuaProcess::update_time: writes the global _current_time of the VM.
UpdateTime(process, time) == [process EXCEPT !._current_time = time]

\* LuaEngine::update_time
EngineUpdateTime(procs, time) ==
    [n \in DOMAIN procs |-> UpdateTime(procs[n], time)]

ProcessMessage(kind, res, secs) ==
    [kind |-> kind, res |-> res, secs |-> secs, name |-> 0, func |-> "-"]
FinishedMessage == ProcessMessage("Finished", "-", 0)
SpawnMessage(name, func) ==
    [kind |-> "Spawn", res |-> "-", secs |-> 0, name |-> name, func |-> func]
\* The message an API call sends: the variant of its kind with its arguments.
MessageOf(call) ==
    IF call.kind = "Spawn" THEN SpawnMessage(call.name, call.func)
    ELSE ProcessMessage(call.kind, call.res, call.secs)

RECURSIVE RunCoroutineUnchecked(_, _, _)
RunCoroutineUnchecked(body, pos, sent) ==
    IF pos > Len(body)
    THEN [pos |-> pos, sent |-> sent, end |-> "return"]
    ELSE IF body[pos].kind = "Wait"
    THEN [pos |-> pos + 1,
          sent |-> Append(sent, ProcessMessage("Wait", "-", body[pos].secs)),
          end |-> "yield"]
    ELSE RunCoroutineUnchecked(body, pos + 1, Append(sent, MessageOf(body[pos])))

\* The coroutine body from call number pos on, up to its next yield (api.rs:
\* wait checks its argument, sends Wait and suspends the coroutine, which goes
\* on from there at its next resume; request, release, log and spawn send their
\* message and return to the script at once).
RECURSIVE RunCoroutine(_, _, _)
RunCoroutine(body, pos, sent) ==
    IF pos > Len(body)
    THEN [pos |-> pos, sent |-> sent, end |-> "return"]
    ELSE IF body[pos].kind = "Wait"
    THEN IF body[pos].secs < 0
         THEN [pos |-> pos, sent |-> sent, end |-> "error"]
         ELSE [pos |-> pos + 1,
               sent |-> Append(sent, ProcessMessage("Wait", "-", body[pos].secs)),
               end |-> "yield"]
    ELSE RunCoroutine(body, pos + 1, Append(sent, MessageOf(body[pos])))

\* LuaProcess::resume: the process after the call and the messages it sent.
Resume(process) ==
    IF process.state = "Finished"
    THEN [process |-> process, sent |-> << >>, end |-> "finished"]
    ELSE IF process.status = "Resumable"
    THEN LET run == RunCoroutine(Scripts[process.function], process.pos, << >>)
         IN  CASE run.end = "yield" ->
                    [process |-> [process EXCEPT !.pos = run.pos],
                     sent |-> run.sent, end |-> "yield"]
               [] run.end = "return" ->
                    [process |-> [process EXCEPT !.pos = run.pos,
                                                 !.status = "Unresumable",
                                                 !.state = "Finished"],
                     sent |-> Append(run.sent, FinishedMessage), end |-> "return"]
               [] run.end = "error" ->
                    [process |-> [process EXCEPT !.pos = run.pos,
                                                 !.status = "Error",
                                                 !.state = "Finished"],
                     sent |-> run.sent, end |-> "error"]
    ELSE [process |-> [process EXCEPT !.state = "Finished"],
          sent |-> << >>, end |-> "finished"]

\* LuaProcess::set_waiting, set_waiting_for_resource
SetWaiting(process) == [process EXCEPT !.state = "Waiting"]
SetWaitingForResource(process) == [process EXCEPT !.state = "WaitingForResource"]

\* --------------------------------------------------------------- variables
VARIABLES
    current_time,       \* Simulation.current_time
    event_queue,        \* Simulation.event_queue: the heap, as a set of events
    event_counter,      \* Simulation.event_counter
    processes,          \* LuaEngine.processes: name -> LuaProcess
    process_receivers,  \* LuaEngine.process_receivers: name -> queued messages
    scripts,            \* LuaEngine.scripts: the function names registered
    resources,          \* ResourceManager.resources: name -> Resource
    request_queues,     \* ResourceManager.request_queues: name -> queue
    waiting_processes,  \* Simulator.waiting_processes: <<process, resource>>
    ready_queue,        \* Simulator.ready_queue
    waiting_for_time,   \* Simulator.waiting_for_time: <<process, wake_time>>
    pc,                 \* position of Simulator::run
    end_time,           \* run's local end_time
    messages,           \* process_lua_messages' local messages, not yet applied
    dispatched,         \* history: events dispatched, with the queue left behind
    wait_deadline,      \* history: per process, now + s of its latest wait(s)
    resumed,            \* history: the resumes of the latest run_ready_processes
    holders,            \* history: <<process, resource>> granted, not yet released
    last_op             \* history: the operation applied by the latest step

vars ==
    << current_time, event_queue, event_counter, processes, process_receivers,
       scripts, resources, request_queues, waiting_processes, ready_queue,
       waiting_for_time, pc, end_time, messages, dispatched, wait_deadline,
       resumed, holders, last_op >>

simulationVars == << current_time, event_queue, event_counter, dispatched >>
engineVars == << processes, process_receivers, scripts, wait_deadline, resumed >>
resourceVars == << resources, request_queues, holders >>
simulatorVars ==
    << waiting_processes, ready_queue, waiting_for_time, pc, end_time, messages >>

\* last_op: the operation, the process and resource it was about, whether it
\* granted (or returned Ok), a value read before it (or its argument), and the
\* SimError variant it returned ("none" when it returned no error).
NoOp ==
    [op |-> "none", proc |-> 0, res |-> "-", granted |-> FALSE, before |-> 0,
     err |-> "none"]
LastOp(op, p, r, g, b) ==
    [op |-> op, proc |-> p, res |-> r, granted |-> g, before |-> b, err |-> "none"]
Failed(op, p, r, b, err) ==
    [op |-> op, proc |-> p, res |-> r, granted |-> FALSE, before |-> b, err |-> err]

\* Simulation::new, LuaEngine::new, ResourceManager::new, Simulator::new
Init ==
    /\ current_time = 0
    /\ event_queue = {}
    /\ event_counter = 0
    /\ processes = << >>
    /\ process_receivers = << >>
    /\ scripts = {}
    /\ resources = << >>
    /\ request_queues = << >>
    /\ waiting_processes = << >>
    /\ ready_queue = << >>
    /\ waiting_for_time = << >>
    /\ pc = "idle"
    /\ end_time = 0
    /\ messages = << >>
    /\ dispatched = << >>
    /\ wait_deadline = << >>
    /\ resumed = << >>
    /\ holders = EmptyBag
    /\ last_op = NoOp

\* ------------------------------------------------------------ simulator.rs
\* Simulator::load_process, with LuaEngine::create_process: a name already in
\* the registry is an mlua::Error::external, which the ? of load_process turns
\* into SimError::LuaError (error.rs, #[from] mlua::Error) before the ready
\* queue is touched.
LoadProcess(name, function) ==
    /\ pc = "idle"
    /\ IF name \in DOMAIN processes
       THEN /\ last_op' = Failed("load_process", name, "-", 0, "LuaError")
            /\ UNCHANGED << engineVars, ready_queue >>
       ELSE /\ processes' = (name :> LuaProcessNew(function)) @@ processes
            /\ process_receivers' = (name :> << >>) @@ process_receivers
            /\ scripts' = scripts \cup {function}
            /\ wait_deadline' = (name :> 0) @@ wait_deadline
            /\ ready_queue' = Append(ready_queue, name)
            /\ last_op' = LastOp("load_process", name, "-", TRUE, 0)
            /\ UNCHANGED resumed
    /\ UNCHANGED << simulationVars, resourceVars, waiting_processes,
                    waiting_for_time, pc, end_time, messages >>

\* Simulator::create_resource
CreateResource(name, capacity) ==
    /\ pc = "idle"
    /\ resources' = RmCreateResources(resources, name, capacity)
    /\ request_queues' = RmCreateQueues(request_queues, name)
    /\ last_op' = LastOp("create_resource", 0, name, name \in DOMAIN resources,
                         IF name \in DOMAIN resources
                         THEN resources[name].available ELSE 0)
    /\ UNCHANGED << simulationVars, engineVars, simulatorVars, holders >>

\* The test of run's while loop, from the given clock value.
LoopTest(now, horizon) == IF now < horizon THEN "wake" ELSE "idle"

\* Simulator::run, up to the first test of its while loop.
Run(duration) ==
    /\ pc = "idle"
    /\ end_time' = SimTimeNew(current_time + duration)
    /\ pc' = LoopTest(current_time, SimTimeNew(current_time + duration))
    /\ last_op' = LastOp("run", 0, "-", FALSE, current_time)
    /\ UNCHANGED << simulationVars, engineVars, resourceVars, waiting_processes,
                    ready_queue, waiting_for_time, messages >>

\* The start of a loop iteration of run: engine.update_time(now), then
\* Simulator::check_waiting_for_time.
CheckWaitingForTime ==
    /\ pc = "wake"
    /\ processes' = EngineUpdateTime(processes, current_time)
    /\ LET due(e) == current_time >= e[2]
           woken == SelectSeq(waiting_for_time, due)
       IN  /\ ready_queue' = ready_queue \o [i \in 1..Len(woken) |-> woken[i][1]]
           /\ waiting_for_time' = SelectSeq(waiting_for_time, LAMBDA e : ~due(e))
    /\ pc' = "ready"
    /\ last_op' = LastOp("check_waiting_for_time", 0, "-", FALSE, current_time)
    /\ UNCHANGED << simulationVars, process_receivers, scripts, wait_deadline,
                    resumed, resourceVars, waiting_processes, end_time,
                    messages >>

RECURSIVE ResumeAllUntilError(_, _, _, _, _, _)
ResumeAllUntilError(names, procs, receivers, deadlines, log, now) ==
    IF names = << >> \/ (log # << >> /\ log[Len(log)].end = "error")
    THEN [processes |-> procs, receivers |-> receivers, deadlines |-> deadlines,
          resumed |-> log]
    ELSE LET name == Head(names) IN
         IF name \notin DOMAIN procs
         THEN ResumeAllUntilError(Tail(names), procs, receivers, deadlines, log,
                                  now)
         ELSE LET before == procs[name]
                  r == Resume(before)
                  entry == [proc |-> name, time |-> now,
                            suspended |-> /\ before.state # "Finished"
                                          /\ before.status = "Resumable"
                                          /\ before.pos > 1,
                            deadline |-> deadlines[name], end |-> r.end,
                            now |-> NowFn(before)]
              IN  ResumeAllUntilError(Tail(names),
                            [procs EXCEPT ![name] = r.process],
                            [receivers EXCEPT ![name] = @ \o r.sent],
                            IF r.end = "yield"
                            THEN [deadlines EXCEPT
                                    ![name] = now + r.sent[Len(r.sent)].secs]
                            ELSE deadlines,
                            Append(log, entry), now)

\* The for loop of run_ready_processes over the drained names.
RECURSIVE ResumeAll(_, _, _, _, _, _)
ResumeAll(names, procs, receivers, deadlines, log, now) ==
    IF names = << >>
    THEN [processes |-> procs, receivers |-> receivers, deadlines |-> deadlines,
          resumed |-> log]
    ELSE LET name == Head(names) IN
         IF name \notin DOMAIN procs
         THEN ResumeAll(Tail(names), procs, receivers, deadlines, log, now)
         ELSE LET before == procs[name]
                  r == Resume(before)
                  entry == [proc |-> name, time |-> now,
                            suspended |-> /\ before.state # "Finished"
                                          /\ before.status = "Resumable"
                                          /\ before.pos > 1,
                            deadline |-> deadlines[name], end |-> r.end,
                            now |-> NowFn(before)]
              IN  ResumeAll(Tail(names),
                            [procs EXCEPT ![name] = r.process],
                            [receivers EXCEPT ![name] = @ \o r.sent],
                            IF r.end = "yield"
                            THEN [deadlines EXCEPT
                                    ![name] = now + r.sent[Len(r.sent)].secs]
                            ELSE deadlines,
                            Append(log, entry), now)

\* Simulator::run_ready_processes
RunReadyProcesses ==
    /\ pc = "ready"
    /\ LET all == ResumeAll(ready_queue, processes, process_receivers,
                            wait_deadline, << >>, current_time)
       IN  /\ processes' = all.processes
           /\ process_receivers' = all.receivers
           /\ wait_deadline' = all.deadlines
           /\ resumed' = all.resumed
    /\ ready_queue' = << >>
    /\ pc' = "drain"
    /\ last_op' = LastOp("run_ready_processes", 0, "-", FALSE, Len(ready_queue))
    /\ UNCHANGED << simulationVars, scripts, resourceVars, waiting_processes,
                    waiting_for_time, end_time, messages >>

\* The orders in which a HashMap may iterate over the keys in set.
IterationOrders(set) ==
    { o \in [1..Cardinality(set) -> set] :
        \A i, j \in 1..Cardinality(set) : i # j => o[i] # o[j] }

\* LuaEngine::process_messages for one iteration order of process_receivers.
RECURSIVE Collect(_, _)
Collect(order, receivers) ==
    IF order = << >> THEN << >>
    ELSE LET name == Head(order)
             box == receivers[name]
         IN  [i \in 1..Len(box) |-> [proc |-> name, msg |-> box[i]]]
             \o Collect(Tail(order), receivers)

\* The start of process_lua_messages: engine.process_messages().
ProcessMessages ==
    /\ pc = "drain"
    /\ \E order \in IterationOrders(DOMAIN process_receivers) :
           messages' = Collect(order, process_receivers)
    /\ process_receivers' = [n \in DOMAIN process_receivers |-> << >>]
    /\ pc' = IF messages' = << >> THEN "check" ELSE "dispatch"
    /\ last_op' = LastOp("process_messages", 0, "-", FALSE, 0)
    /\ UNCHANGED << simulationVars, processes, scripts, wait_deadline, resumed,
                    resourceVars, waiting_processes, ready_queue,
                    waiting_for_time, end_time >>

\* The message the for loop of process_lua_messages is about to apply.
Applying(kind) ==
    /\ pc = "dispatch"
    /\ messages # << >>
    /\ Head(messages).msg.kind = kind

\* The step of that loop to its next message, or out of it.
AfterMessage ==
    /\ messages' = Tail(messages)
    /\ pc' = IF Tail(messages) = << >> THEN "check" ELSE "dispatch"

\* process_lua_messages, ProcessMessage::Wait
ApplyWait ==
    /\ Applying("Wait")
    /\ LET name == Head(messages).proc
           seconds == Head(messages).msg.secs
           wake_time == current_time + seconds
       IN  /\ processes' = IF name \in DOMAIN processes
                           THEN [processes EXCEPT ![name] = SetWaiting(@)]
                           ELSE processes
           /\ waiting_for_time' = Append(waiting_for_time, << name, wake_time >>)
           /\ last_op' = LastOp("wait", name, "-", FALSE, wake_time)
    /\ AfterMessage
    /\ UNCHANGED << simulationVars, process_receivers, scripts, wait_deadline,
                    resumed, resourceVars, waiting_processes, ready_queue,
                    end_time >>

\* process_lua_messages, ProcessMessage::Request.  A granted request sends
\* ResourceGranted to the process (LuaEngine::send_command), which changes no
\* scheduling structure; the process is in the registry, so the send succeeds.
ApplyRequest ==
    /\ Applying("Request")
    /\ LET name == Head(messages).proc
           resource == Head(messages).msg.res
           granted == RmRequestGranted(resources, resource)
       IN  /\ resources' = RmRequest(resources, request_queues, resource)
           /\ holders' = IF granted
                         THEN holders (+) SetToBag({<< name, resource >>})
                         ELSE holders
           /\ IF granted
              THEN UNCHANGED << processes, waiting_processes >>
              ELSE /\ processes' =
                        IF name \in DOMAIN processes
                        THEN [processes EXCEPT ![name] = SetWaitingForResource(@)]
                        ELSE processes
                   /\ waiting_processes' =
                        Append(waiting_processes, << name, resource >>)
           /\ last_op' = LastOp("request", name, resource, granted,
                                IF resource \in DOMAIN resources
                                THEN resources[resource].available ELSE 0)
    /\ AfterMessage
    /\ UNCHANGED << simulationVars, process_receivers, scripts, wait_deadline,
                    resumed, request_queues, ready_queue, waiting_for_time,
                    end_time >>

\* process_lua_messages, ProcessMessage::Release
ApplyRelease ==
    /\ Applying("Release")
    /\ LET name == Head(messages).proc
           resource == Head(messages).msg.res
       IN  /\ resources' = RmRelease(resources, request_queues, resource)
           /\ holders' = IF BagIn(<< name, resource >>, holders)
                         THEN holders (-) SetToBag({<< name, resource >>})
                         ELSE holders
           /\ last_op' = LastOp("release", name, resource, FALSE,
                                IF resource \in DOMAIN resources
                                THEN resources[resource].available ELSE 0)
    /\ AfterMessage
    /\ UNCHANGED << simulationVars, engineVars, request_queues,
                    waiting_processes, ready_queue, waiting_for_time, end_time >>

\* process_lua_messages, ProcessMessage::Log: forwarded to the tracing sink.
ApplyLog ==
    /\ Applying("Log")
    /\ last_op' = LastOp("log", Head(messages).proc, "-", FALSE, 0)
    /\ AfterMessage
    /\ UNCHANGED << simulationVars, engineVars, resourceVars, waiting_processes,
                    ready_queue, waiting_for_time, end_time >>

\* process_lua_messages, ProcessMessage::Finished
ApplyFinished ==
    /\ Applying("Finished")
    /\ last_op' = LastOp("finished", Head(messages).proc, "-", FALSE, 0)
    /\ AfterMessage
    /\ UNCHANGED << simulationVars, engineVars, resourceVars, waiting_processes,
                    ready_queue, waiting_for_time, end_time >>

SpawnProcessAnyName(procs, loaded, name, func) == func \in loaded

\* LuaEngine::spawn_process, its result: the name must be unused and the
\* function a key of the scripts map.
SpawnProcessOk(procs, loaded, name, func) ==
    name \notin DOMAIN procs /\ func \in loaded

\* process_lua_messages, ProcessMessage::Spawn, with the engine.update_time
\* that follows a successful spawn.
ApplySpawn ==
    /\ Applying("Spawn")
    /\ LET process_name == Head(messages).proc
           name == Head(messages).msg.name
           func == Head(messages).msg.func
       IN  IF SpawnProcessOk(processes, scripts, name, func)
           THEN /\ processes' =
                     EngineUpdateTime((name :> LuaProcessNew(func)) @@ processes,
                                      current_time)
                /\ process_receivers' = (name :> << >>) @@ process_receivers
                /\ wait_deadline' = (name :> 0) @@ wait_deadline
                /\ ready_queue' = Append(ready_queue, name)
                /\ last_op' = LastOp("spawn", name, "-", TRUE, process_name)
           ELSE /\ last_op' = Failed("spawn", name, "-", process_name, "none")
                /\ UNCHANGED << processes, process_receivers, wait_deadline,
                                ready_queue >>
    /\ AfterMessage
    /\ UNCHANGED << simulationVars, scripts, resumed, resourceVars,
                    waiting_processes, waiting_for_time, end_time >>

\* The for loop of check_waiting_processes from entry i on: the resources, the
\* entries kept and the processes pushed to the ready queue.
RECURSIVE ScanWaiting(_, _, _, _, _, _)
ScanWaiting(waiting, i, rs, qs, kept, woken) ==
    IF i > Len(waiting)
    THEN [resources |-> rs, kept |-> kept, woken |-> woken]
    ELSE LET process_name == waiting[i][1]
             resource_name == waiting[i][2]
         IN  IF RmRequestGranted(rs, resource_name)
             THEN ScanWaiting(waiting, i + 1, RmRequest(rs, qs, resource_name), qs,
                              kept, Append(woken, process_name))
             ELSE ScanWaiting(waiting, i + 1, RmRequest(rs, qs, resource_name), qs,
                              Append(kept, waiting[i]), woken)

\* The entries of a list, counted.
BagOfSeq(seq) ==
    [e \in {seq[i] : i \in 1..Len(seq)} |->
        Cardinality({i \in 1..Len(seq) : seq[i] = e})]

\* Simulator::check_waiting_processes
CheckWaitingProcesses ==
    /\ pc = "check"
    /\ LET scan == ScanWaiting(waiting_processes, 1, resources, request_queues,
                               << >>, << >>)
       IN  /\ resources' = scan.resources
           /\ waiting_processes' = scan.kept
           /\ holders' = holders (+) (BagOfSeq(waiting_processes)
                                      (-) BagOfSeq(scan.kept))
           /\ ready_queue' = ready_queue \o scan.woken
           /\ last_op' = LastOp("check_waiting_processes", 0, "-",
                                scan.woken # << >>, Len(waiting_processes))
    /\ pc' = "advance"
    /\ UNCHANGED << simulationVars, engineVars, request_queues, waiting_for_time,
                    end_time, messages >>

SortByWakeUnsorted(waiting) == waiting

\* Vec::sort_by on the wake time (a stable sort).
RECURSIVE SortByWake(_)
SortByWake(waiting) ==
    IF waiting = << >> THEN << >>
    ELSE LET last == waiting[Len(waiting)]
             rest == SortByWake(SubSeq(waiting, 1, Len(waiting) - 1))
         IN  SelectSeq(rest, LAMBDA e : e[2] <= last[2])
             \o << last >>
             \o SelectSeq(rest, LAMBDA e : e[2] > last[2])

SetTimeAhead(time) == current_time' = time + 1

\* Simulation::set_time
SetTime(time) == current_time' = time

\* Simulation::process_next_event on a non-empty queue
PopNextEvent ==
    LET event == HeapPop(event_queue)
    IN  /\ event_queue' = event_queue \ {event}
        /\ current_time' = event.time
        /\ dispatched' = Append(dispatched,
                                [event |-> event,
                                 pending |-> {e.id : e \in event_queue \ {event}}])

ActivityIgnoringReady(has_ready, has_waiting, has_waiting_procs) ==
    IF has_waiting THEN "set_time"
    ELSE IF ~has_ready /\ ~has_waiting_procs THEN "break"
    ELSE "yield_now"

\* What run does when the event queue is empty: leave the loop when nothing is
\* ready or waiting, jump to the nearest wake time when nothing is ready but a
\* timed wait exists, and otherwise yield and loop at the same time.
Activity(has_ready, has_waiting, has_waiting_procs) ==
    IF ~has_ready /\ ~has_waiting /\ ~has_waiting_procs THEN "break"
    ELSE IF ~has_ready /\ has_waiting THEN "set_time"
    ELSE "yield_now"

\* The rest of one iteration of run's loop (the events branch, or the checks
\* for activity and the time advance), and the loop's test.
AdvanceTime ==
    /\ pc = "advance"
    /\ IF event_queue # {}
       THEN /\ PopNextEvent
            /\ pc' = LoopTest(current_time', end_time)
            /\ last_op' = LastOp("process_next_event", 0, "-", FALSE, current_time)
            /\ UNCHANGED << event_counter, waiting_for_time >>
       ELSE LET activity == Activity(ready_queue # << >>,
                                     waiting_for_time # << >>,
                                     waiting_processes # << >>)
            IN  IF activity = "break"
                THEN /\ pc' = "idle"
                     /\ last_op' = LastOp("break", 0, "-", FALSE, current_time)
                     /\ UNCHANGED << simulationVars, waiting_for_time >>
                ELSE IF activity = "set_time"
                THEN LET sorted == SortByWake(waiting_for_time)
                         next_time == sorted[1][2]
                     IN  /\ waiting_for_time' = sorted
                         /\ SetTime(SimTimeNew(next_time))
                         /\ pc' = LoopTest(SimTimeNew(next_time), end_time)
                         /\ last_op' = LastOp("set_time", 0, "-", FALSE,
                                              current_time)
                         /\ UNCHANGED << event_queue, event_counter, dispatched >>
                ELSE /\ pc' = LoopTest(current_time, end_time)
                     /\ last_op' = LastOp("yield_now", 0, "-", FALSE, current_time)
                     /\ UNCHANGED << simulationVars, waiting_for_time >>
    /\ UNCHANGED << engineVars, resourceVars, waiting_processes, ready_queue,
                    end_time, messages >>

\* The names load_process is called with: the first unused one (names are
\* opaque) and the ones in the registry.
LoadNames ==
    LET free == ProcNames \ DOMAIN processes
    IN  DOMAIN processes
        \cup {n \in free : \A m \in free : n <= m}

Next ==
    \/ \E name \in LoadNames, function \in FunctionNames :
           LoadProcess(name, function)
    \/ \E capacity \in 0..MaxCapacity : CreateResource("r", capacity)
    \/ \E duration \in 1..MaxDuration : Run(duration)
    \/ CheckWaitingForTime
    \/ RunReadyProcesses
    \/ ProcessMessages
    \/ ApplyWait
    \/ ApplyRequest
    \/ ApplyRelease
    \/ ApplyLog
    \/ ApplyFinished
    \/ CheckWaitingProcesses
    \/ AdvanceTime

Spec == Init /\ [][Next]_vars

\* In-run steps of the scheduler: once run is called its loop keeps stepping.
RunStep ==
    \/ CheckWaitingForTime
    \/ RunReadyProcesses
    \/ ProcessMessages
    \/ ApplyWait
    \/ ApplyRequest
    \/ ApplyRelease
    \/ ApplyLog
    \/ ApplyFinished
    \/ CheckWaitingProcesses
    \/ AdvanceTime

\* The scheduler running the scripts that use no resource (those of
\* test_spawn.rs and the failing one).
SpawnNext ==
    \/ \E name \in LoadNames, function \in SpawnFunctionNames :
           LoadProcess(name, function)
    \/ \E duration \in 1..MaxDuration : Run(duration)
    \/ CheckWaitingForTime
    \/ RunReadyProcesses
    \/ ProcessMessages
    \/ ApplyWait
    \/ ApplySpawn
    \/ ApplyLog
    \/ ApplyFinished
    \/ CheckWaitingProcesses
    \/ AdvanceTime

SpawnSpec == Init /\ [][SpawnNext]_vars

\* The scheduler running clients only (test_simple.rs: each requests r, holds
\* it for one second and releases it), on a resource created once, before the
\* first run, with a capacity of at least one.
ClientsNext ==
    \/ /\ Cardinality(DOMAIN processes) < MaxClients
       /\ LoadProcess(Cardinality(DOMAIN processes) + 1, "client")
    \/ /\ "r" \notin DOMAIN resources
       /\ \E capacity \in 1..MaxCapacity : CreateResource("r", capacity)
    \/ /\ "r" \in DOMAIN resources
       /\ \E duration \in 1..MaxDuration : Run(duration)
    \/ CheckWaitingForTime
    \/ RunReadyProcesses
    \/ ProcessMessages
    \/ ApplyWait
    \/ ApplyRequest
    \/ ApplyRelease
    \/ ApplyLog
    \/ ApplyFinished
    \/ CheckWaitingProcesses
    \/ AdvanceTime

ClientsSpec == Init /\ [][ClientsNext]_vars

\* The scheduler running clients and processes that hold r over two phases, on
\* a resource created once, before the first run.
PhasedNext ==
    \/ \E name \in LoadNames, function \in {"client", "phased"} :
           LoadProcess(name, function)
    \/ /\ "r" \notin DOMAIN resources
       /\ \E capacity \in 1..MaxCapacity : CreateResource("r", capacity)
    \/ /\ "r" \in DOMAIN resources
       /\ \E duration \in 1..MaxDuration : Run(duration)
    \/ CheckWaitingForTime
    \/ RunReadyProcesses
    \/ ProcessMessages
    \/ ApplyWait
    \/ ApplyRequest
    \/ ApplyRelease
    \/ ApplyLog
    \/ ApplyFinished
    \/ CheckWaitingProcesses
    \/ AdvanceTime

PhasedSpec == Init /\ [][PhasedNext]_vars

\* ------------------------------------------------- core/simulation.rs, alone
\* Simulation::schedule_at: no test of time against now; always Ok.
ScheduleAt(time, priority) ==
    /\ pc = "idle"
    /\ event_counter < MaxEvents
    /\ event_counter' = event_counter + 1
    /\ event_queue' = event_queue \cup {NewEvent(time, priority, event_counter)}
    /\ last_op' = LastOp("schedule_at", 0, "-", TRUE, time)
    /\ UNCHANGED << current_time, dispatched, engineVars, resourceVars,
                    simulatorVars >>

\* Simulation::schedule_after: now + SimTime::new(delay), then schedule_at.
ScheduleAfter(delay, priority) ==
    /\ pc = "idle"
    /\ event_counter < MaxEvents
    /\ event_counter' = event_counter + 1
    /\ event_queue' = event_queue
            \cup {NewEvent(current_time + SimTimeNew(delay), priority, event_counter)}
    /\ last_op' = LastOp("schedule_after", 0, "-", TRUE, delay)
    /\ UNCHANGED << current_time, dispatched, engineVars, resourceVars,
                    simulatorVars >>

\* Simulation::process_next_event
ProcessNextEvent ==
    /\ pc = "idle"
    /\ IF event_queue # {}
       THEN /\ PopNextEvent
            /\ last_op' = LastOp("process_next_event", 0, "-", TRUE, current_time)
       ELSE /\ last_op' = Failed("process_next_event", 0, "-", current_time,
                                  "SimulationError")
            /\ UNCHANGED << current_time, event_queue, dispatched >>
    /\ UNCHANGED << event_counter, engineVars, resourceVars, simulatorVars >>

\* Simulation::run_until from the clock value now: process_next_event while
\* now < end_time and the queue has events.
RECURSIVE RunUntil(_, _, _, _)
RunUntil(now, queue, log, end) ==
    IF now < end /\ queue # {}
    THEN LET event == HeapPop(queue)
         IN  RunUntil(event.time, queue \ {event},
                      Append(log, [event |-> event,
                                   pending |-> {e.id : e \in queue \ {event}}]),
                      end)
    ELSE [now |-> now, queue |-> queue, dispatched |-> log]

\* Simulation::run_for: end = now + SimTime::new(duration), then run_until.
RunFor(duration) ==
    /\ pc = "idle"
    /\ LET start == current_time
           end == start + SimTimeNew(duration)
           run == RunUntil(current_time, event_queue, dispatched, end)
       IN  /\ current_time' = run.now
           /\ event_queue' = run.queue
           /\ dispatched' = run.dispatched
    /\ last_op' = LastOp("run_for", 0, "-", TRUE, duration)
    /\ UNCHANGED << event_counter, engineVars, resourceVars, simulatorVars >>

KernelNext ==
    \/ \E time \in 0..MaxTime, priority \in Priorities : ScheduleAt(time, priority)
    \/ \E delay \in (-1)..MaxTime, priority \in Priorities :
           ScheduleAfter(delay, priority)
    \/ ProcessNextEvent

\* A Simulation used on its own through its public scheduling interface.
KernelSpec == Init /\ [][KernelNext]_vars

\* A Simulation whose events all have the default priority, driven by run_for
\* as well (core_test.rs: schedule_after, then run_for).
RunForNext ==
    \/ \E time \in 0..MaxTime : ScheduleAt(time, Normal)
    \/ \E delay \in 0..MaxTime : ScheduleAfter(delay, Normal)
    \/ ProcessNextEvent
    \/ \E duration \in 0..MaxDuration : RunFor(duration)

RunForSpec == Init /\ [][RunForNext]_vars

\* --------------------------------------------------- resources/mod.rs, alone
\* ResourceManager::create
ManagerCreate(name, capacity) ==
    /\ pc = "idle"
    /\ resources' = RmCreateResources(resources, name, capacity)
    /\ request_queues' = RmCreateQueues(request_queues, name)
    /\ last_op' = LastOp("create", 0, name, name \in DOMAIN resources,
                         IF name \in DOMAIN resources
                         THEN resources[name].available ELSE 0)
    /\ UNCHANGED << simulationVars, engineVars, simulatorVars, holders >>

\* ResourceManager::request
ManagerRequest(name) ==
    /\ pc = "idle"
    /\ name \in DOMAIN resources => resources[name].total_requests < MaxRequests
    /\ resources' = RmRequest(resources, request_queues, name)
    /\ last_op' = LastOp("request", 0, name, RmRequestGranted(resources, name),
                         IF name \in DOMAIN resources
                         THEN resources[name].available ELSE 0)
    /\ UNCHANGED << simulationVars, engineVars, request_queues, simulatorVars,
                    holders >>

\* ResourceManager::release
ManagerRelease(name) ==
    /\ pc = "idle"
    /\ resources' = RmRelease(resources, request_queues, name)
    /\ last_op' = LastOp("release", 0, name, FALSE,
                         IF name \in DOMAIN resources
                         THEN resources[name].available ELSE 0)
    /\ UNCHANGED << simulationVars, engineVars, request_queues, simulatorVars,
                    holders >>

\* ResourceManager::queue_request
ManagerQueueRequest(name, process) ==
    /\ pc = "idle"
    /\ name \in DOMAIN request_queues => Len(request_queues[name]) < MaxQueue
    /\ request_queues' = RmQueueRequestQueues(request_queues, name, process)
    /\ resources' = RmQueueRequest(resources, request_queues, name, process)
    /\ last_op' = LastOp("queue_request", process, name, FALSE, 0)
    /\ UNCHANGED << simulationVars, engineVars, simulatorVars, holders >>

ManagerNext ==
    \/ \E name \in ResourceNames, capacity \in 0..MaxCapacity :
           ManagerCreate(name, capacity)
    \/ \E name \in ResourceNames : ManagerRequest(name)
    \/ \E name \in ResourceNames : ManagerRelease(name)
    \/ \E name \in ResourceNames, process \in ProcNames :
           ManagerQueueRequest(name, process)

\* A ResourceManager used on its own, by any sequence of calls.
ManagerSpec == Init /\ [][ManagerNext]_vars

\* ==================================================================== claims

\* The entries of waiting_processes that wait for resource r.
WaitersOf(r) == SelectSeq(waiting_processes, LAMBDA e : e[2] = r)

\* C1: for every resource r, in every reachable state (after any creates,
\* requests and releases, unrequested and repeated releases included),
\* 0 <= available(r) <= capacity(r).
C1_AvailableWithinCapacity ==
    \A r \in DOMAIN resources :
        /\ 0 <= resources[r].available
        /\ resources[r].available <= resources[r].capacity

\* C1 witness: a release was applied to a resource that was already full (a
\* repeated release, or one by a process that was never granted r).
C1_Witness ==
    /\ last_op.op = "release"
    /\ last_op.res \in DOMAIN resources
    /\ resources[last_op.res].capacity >= 1
    /\ last_op.before = resources[last_op.res].capacity
    /\ resources[last_op.res].available = resources[last_op.res].capacity

\* C2: in every reachable state of a run, if a process is waiting for resource
\* r then available(r) = 0 (also right after a Release has been applied and
\* before the waiting list is next scanned).
C2_WaitersImplyNoneAvailable ==
    \A r \in DOMAIN resources :
        (pc # "idle" /\ WaitersOf(r) # << >>) => resources[r].available = 0

\* C3: grants are FIFO: a process whose Request is applied while another
\* process is already in the wait list of r is not granted r ahead of it.
C3_GrantsAreFifo ==
    [][ \A r \in DOMAIN resources :
          (Applying("Request") /\ Head(messages).msg.res = r
             /\ WaitersOf(r) # << >>)
          => ~RmRequestGranted(resources, r) ]_vars

\* C4: a release of r applied while the wait list of r is non-empty leaves
\* available(r) as it was, and removes exactly the head of the wait list of r
\* and unblocks it (puts it in the ready queue).
C4_ReleaseHandsOff ==
    [][ \A r \in DOMAIN resources :
          (Applying("Release") /\ Head(messages).msg.res = r
             /\ WaitersOf(r) # << >>)
          => /\ resources'[r].available = resources[r].available
             /\ SelectSeq(waiting_processes', LAMBDA e : e[2] = r)
                    = Tail(WaitersOf(r))
             /\ ready_queue' = Append(ready_queue, WaitersOf(r)[1][1]) ]_vars

\* The order the ordering contract states for e1 dispatched before e2.
ClaimedOrder(e1, e2) ==
    /\ \/ e1.time < e2.time
       \/ e1.time = e2.time /\ e1.priority <= e2.priority
    /\ (e1.time = e2.time /\ e1.priority = e2.priority) => e1.id < e2.id

\* C5 as stated: every pair of events e1 dispatched before e2, under any
\* interleaving of scheduling and dispatching, is in the claimed order.
C5_DispatchOrderAnyInterleaving ==
    \A i, j \in 1..Len(dispatched) :
        i < j => ClaimedOrder(dispatched[i].event, dispatched[j].event)

\* C5 amended: every pair of events e1 dispatched before e2, where e2 was
\* already in the queue when e1 was dispatched, is in the claimed order.
C5_DispatchOrderAmongPending ==
    \A i, j \in 1..Len(dispatched) :
        (i < j /\ dispatched[j].event.id \in dispatched[i].pending)
        => ClaimedOrder(dispatched[i].event, dispatched[j].event)

\* C5 witness: two events at the same time, the later-scheduled one of higher
\* priority, both pending together, have both been dispatched.
C5_Witness ==
    /\ Len(dispatched) >= 2
    /\ dispatched[2].event.id \in dispatched[1].pending
    /\ dispatched[1].event.time = dispatched[2].event.time
    /\ dispatched[1].event.priority < dispatched[2].event.priority
    /\ dispatched[1].event.id > dispatched[2].event.id

\* C6: the clock never decreases, in any step.
C6_ClockNeverDecreases == [][current_time' >= current_time]_vars

\* C7: a process that called wait(s) at time t is not resumed before the clock
\* has reached t + s.
C7_NotResumedBeforeWakeTime ==
    \A i \in 1..Len(resumed) :
        resumed[i].suspended => resumed[i].time >= resumed[i].deadline

\* C8: the order in which the messages of different processes are applied does
\* not depend on the iteration order of the registry map: every order yields
\* the messages that process_messages returns.
C8_OrderIndependentOfMap ==
    [][ pc = "drain" =>
          \A order \in IterationOrders(DOMAIN process_receivers) :
              Collect(order, process_receivers) = messages' ]_vars

\* Every process left is WaitingForResource (for a resource that exists), and
\* nothing else can happen: the ready queue, the timed waits and the event
\* queue are empty.
Deadlocked ==
    /\ event_queue = {}
    /\ \A i \in 1..Len(waiting_processes) :
           waiting_processes[i][2] \in DOMAIN resources
    /\ ready_queue = << >>
    /\ waiting_for_time = << >>
    /\ waiting_processes # << >>
    /\ \E n \in DOMAIN processes : processes[n].state = "WaitingForResource"
    /\ \A n \in DOMAIN processes :
           processes[n].state \in {"WaitingForResource", "Finished"}

\* C9: when run finds the simulation deadlocked at the end of a loop iteration,
\* it returns instead of looping on.
C9_DeadlockTerminates ==
    [][ (pc = "advance" /\ Deadlocked) => pc' = "idle" ]_vars

\* C10: the clock never exceeds the horizon of the run: in the run and when it
\* returns, now <= t0 + duration.
C10_ClockWithinHorizon == current_time <= end_time

\* The latest time any process was to be woken at by a wait (0 if none
\* waited).
LastWakeUp ==
    LET times == {0} \cup {wait_deadline[n] : n \in DOMAIN wait_deadline}
    IN  CHOOSE t \in times : \A u \in times : u <= t

\* C11: when run returns because nothing remains (no event, no ready process,
\* no timed waiter, no resource waiter), it has not run the clock on to the
\* horizon: the final clock is the time of the last wake-up, below the horizon.
C11_ReturnsAtLastWakeUp ==
    last_op.op = "break" =>
        /\ current_time = LastWakeUp
        /\ current_time < end_time

\* C11 witness: run has returned at time 1 under a horizon of 2, after a lone
\* process that called wait(1) at time 0 was woken and finished at 1.
C11_Witness ==
    /\ last_op.op = "break"
    /\ Cardinality(DOMAIN processes) = 1
    /\ \A n \in DOMAIN processes :
           processes[n].state = "Finished" /\ wait_deadline[n] = 1
    /\ current_time = 1
    /\ end_time = 2

\* C12: a process whose Request(r) is applied while available(r) > 0 is granted
\* and appended to the ready queue by that same step of the dispatch (from
\* where it is resumed in the same tick, so that it is never outside the ready
\* queue, the timed waits and the wait list all at once).
C12_GrantedIsReadied ==
    [][ (Applying("Request")
           /\ RmRequestGranted(resources, Head(messages).msg.res))
        => ready_queue' = Append(ready_queue, Head(messages).proc) ]_vars

\* Every script has run to its end and every message has been applied: each
\* process that took r has released it, and nothing is left that could run.
AllReleased ==
    /\ pc = "advance"
    /\ ready_queue = << >>
    /\ waiting_for_time = << >>
    /\ messages = << >>
    /\ \A n \in DOMAIN processes :
           processes[n].status = "Unresumable" /\ process_receivers[n] = << >>

\* C13: starvation freedom, for processes that each hold r for a bounded time
\* and release it: every process queued on r is granted r, so once every
\* holder has released and nothing is left to run, no process is still queued.
C13_NoWaiterLeftBehind ==
    \A r \in DOMAIN resources : AllReleased => WaitersOf(r) = << >>

\* C14: scheduling in the past is an error: a schedule_at with time < now, or
\* a schedule_after with delay < 0, returns an error and leaves the event
\* queue and the event id counter unchanged.
C14_PastSchedulingIsRefused ==
    [][ ( \/ last_op'.op = "schedule_at" /\ last_op'.before < current_time
          \/ last_op'.op = "schedule_after" /\ last_op'.before < 0 )
        => /\ ~last_op'.granted
           /\ event_queue' = event_queue
           /\ event_counter' = event_counter ]_vars

\* The key events are ordered by: time, then priority, then id.
KeyOf(e) == << e.time, e.priority, e.id >>
KeyLess(a, b) ==
    \/ a[1] < b[1]
    \/ a[1] = b[1] /\ a[2] < b[2]
    \/ a[1] = b[1] /\ a[2] = b[2] /\ a[3] < b[3]

\* C15: process_next_event on a non-empty queue removes exactly the minimum
\* event (by time, priority, id), sets now to its time and invokes its callback
\* once (one more dispatch, of that event); on an empty queue it fails with a
\* SimulationError and leaves now and the queue (and the dispatches) unchanged.
C15_ProcessNextEvent ==
    [][ last_op'.op = "process_next_event" =>
          IF event_queue # {}
          THEN \E e \in event_queue :
                  /\ \A f \in event_queue \ {e} : KeyLess(KeyOf(e), KeyOf(f))
                  /\ event_queue' = event_queue \ {e}
                  /\ current_time' = e.time
                  /\ Len(dispatched') = Len(dispatched) + 1
                  /\ SubSeq(dispatched', 1, Len(dispatched)) = dispatched
                  /\ dispatched'[Len(dispatched')].event = e
                  /\ last_op'.err = "none"
          ELSE /\ last_op'.err = "SimulationError"
               /\ UNCHANGED << current_time, event_queue, dispatched >> ]_vars

\* C15 witness: process_next_event has dispatched a High event and then the
\* Low event scheduled first (id 0), and one event at a later time is left.
C15_Witness ==
    /\ last_op.op = "process_next_event"
    /\ last_op.err = "none"
    /\ Len(dispatched) = 2
    /\ dispatched[1].event.priority = High
    /\ dispatched[2].event.priority = Low
    /\ dispatched[2].event.id = 0
    /\ Cardinality(event_queue) = 1
    /\ \A e \in event_queue : e.time > current_time

\* C16: creating a resource with a name that already exists fails and leaves
\* the existing resource unchanged (its available count, wait list and
\* total_requests).
C16_SecondCreateChangesNothing ==
    [][ (last_op'.op = "create" /\ last_op'.res \in DOMAIN resources)
        => /\ last_op'.err # "none"
           /\ resources' = resources
           /\ request_queues' = request_queues ]_vars

\* C17: a release of r applied when available(r) = capacity(r) is a no-op:
\* available, the wait list, queue_length and total_requests of r, and every
\* other resource, are unchanged.
C17_DoubleReleaseIsNoOp ==
    [][ (/\ last_op'.op = "release"
         /\ last_op'.res \in DOMAIN resources
         /\ resources[last_op'.res].available
                = resources[last_op'.res].capacity)
        => /\ resources' = resources
           /\ request_queues' = request_queues ]_vars

\* C17 witness: a release was applied to a resource that was full (it has no
\* unit at all) while its queue_length, written by a refused request, differed
\* from the length of its request queue.
C17_Witness ==
    /\ last_op.op = "release"
    /\ last_op.res \in DOMAIN resources
    /\ last_op.before = resources[last_op.res].capacity
    /\ resources[last_op.res].available = resources[last_op.res].capacity
    /\ resources[last_op.res].queue_length
           # Len(request_queues[last_op.res])

\* The entry functions of the scripts loaded so far (no process ever leaves
\* the registry during a run).
LoadedFunctions == {processes[n].function : n \in DOMAIN processes}

\* C18: a spawn(child_name, fn_name) whose child_name is the name of an
\* existing process, or whose fn_name is not the entry function of a loaded
\* script, creates no process, leaves the existing process of that name (and
\* every other) untouched, and appends nothing to the ready queue.
C18_FailedSpawnChangesNothing ==
    [][ (/\ Applying("Spawn")
         /\ \/ Head(messages).msg.name \in DOMAIN processes
            \/ Head(messages).msg.func \notin LoadedFunctions)
        => /\ processes' = processes
           /\ process_receivers' = process_receivers
           /\ ready_queue' = ready_queue ]_vars

\* C18 witness: a spawn of a loaded function under the name of an existing
\* process has just been refused, the process of that name being suspended in
\* its wait.
C18_Witness ==
    /\ last_op.op = "spawn"
    /\ ~last_op.granted
    /\ "child" \in LoadedFunctions
    /\ last_op.proc \in DOMAIN processes
    /\ processes[last_op.proc].pos > 1
    /\ processes[last_op.proc].status = "Resumable"

\* C19: load_process with the name of a process that is still in the registry
\* (a Finished one included) fails with a ProcessError, and leaves the
\* registry, the existing process and the ready queue unchanged.
C19_DuplicateLoadIsProcessError ==
    [][ (last_op'.op = "load_process" /\ last_op'.proc \in DOMAIN processes)
        => /\ last_op'.err = "ProcessError"
           /\ processes' = processes
           /\ process_receivers' = process_receivers
           /\ ready_queue' = ready_queue ]_vars

\* C20: a script error raised while a process is resumed moves that process
\* to Finished and no other (a process becomes Finished only by its own
\* resume); run_ready_processes does not return an error because of it (run
\* goes on to process_lua_messages), and every process of the ready queue
\* snapshot is resumed, in order, the ones after the failing one included.
C20_ScriptErrorIsContained ==
    [][ pc = "ready" =>
          LET snapshot == SelectSeq(ready_queue,
                                    LAMBDA n : n \in DOMAIN processes)
          IN  /\ pc' = "drain"
              /\ Len(resumed') = Len(snapshot)
              /\ \A i \in 1..Len(snapshot) : resumed'[i].proc = snapshot[i]
              /\ \A i \in 1..Len(resumed') :
                     resumed'[i].end = "error"
                     => processes'[resumed'[i].proc].state = "Finished"
              /\ \A n \in DOMAIN processes :
                     (processes'[n].state = "Finished"
                        /\ processes[n].state # "Finished")
                     => \E i \in 1..Len(resumed') :
                            /\ resumed'[i].proc = n
                            /\ resumed'[i].end \in {"error", "return", "finished"}
    ]_vars

\* C20 witness: in one tick the first process of the ready queue failed in its
\* script and is Finished, and the second was resumed after it and suspended
\* in its wait.
C20_Witness ==
    /\ pc = "drain"
    /\ Len(resumed) = 2
    /\ resumed[1].end = "error"
    /\ resumed[2].end = "yield"
    /\ resumed[1].proc # resumed[2].proc
    /\ processes[resumed[1].proc].state = "Finished"
    /\ processes[resumed[2].proc].state # "Finished"

\* C21: a Request for a resource name that was never created fails the
\* calling process: the process becomes Finished and is not placed on any
\* waiting list.
C21_UnknownResourceFailsProcess ==
    [][ (Applying("Request") /\ Head(messages).msg.res \notin DOMAIN resources)
        => /\ processes'[Head(messages).proc].state = "Finished"
           /\ waiting_processes' = waiting_processes
           /\ waiting_for_time' = waiting_for_time ]_vars

\* C22: at every resume of a process, the value its script reads through
\* now() equals the kernel's current virtual time.
C22_NowIsKernelTime ==
    \A i \in 1..Len(resumed) : resumed[i].now = resumed[i].time

\* The script of process n stands at a wait with a negative argument.
AtNegativeWait(n) ==
    LET body == Scripts[processes[n].function]
        pos == processes[n].pos
    IN  /\ processes[n].state # "Finished"
        /\ processes[n].status = "Resumable"
        /\ \E k \in pos..Len(body) :
               /\ body[k].kind = "Wait" /\ body[k].secs < 0
               /\ \A j \in pos..(k - 1) : body[j].kind # "Wait"

\* C23: a wait(s) with s < 0 fails the calling process: the resume in which the
\* script calls it emits no Wait message and leaves the process Finished, and
\* no process whose script has failed is ever in the timed wait set.
C23_NegativeWaitFailsProcess ==
    [][ /\ pc = "ready" =>
             \A i \in 1..Len(ready_queue) :
                 LET n == ready_queue[i] IN
                 (n \in DOMAIN processes /\ AtNegativeWait(n))
                 => /\ processes'[n].state = "Finished"
                    /\ \A k \in 1..Len(process_receivers'[n]) :
                           process_receivers'[n][k].kind # "Wait"
        /\ \A k \in 1..Len(waiting_for_time') :
               processes'[waiting_for_time'[k][1]].status # "Error" ]_vars

\* C23 witness: the process whose script called wait(-1) has been resumed:
\* its resume ended in the error, it is Finished, and of its messages only
\* the log that preceded the wait has been emitted.
C23_Witness ==
    /\ pc = "drain"
    /\ \E i \in 1..Len(resumed) :
           LET n == resumed[i].proc IN
           /\ resumed[i].end = "error"
           /\ processes[n].function = "faulty"
           /\ processes[n].state = "Finished"
           /\ Len(process_receivers[n]) = 1
           /\ process_receivers[n][1].kind = "Log"
           /\ \A k \in 1..Len(waiting_for_time) : waiting_for_time[k][1] # n

\* C24: a successful Spawn appends the child to the ready queue at the time it
\* is applied; the clock does not move while the ready queue holds a name; and
\* run_ready_processes resumes every registered name of the ready queue at the
\* current time.  So a child spawned at t is first resumed at t.
C24_ChildResumedAtSpawnTime ==
    [][ /\ (/\ Applying("Spawn")
            /\ SpawnProcessOk(processes, scripts, Head(messages).msg.name,
                              Head(messages).msg.func))
           => ready_queue' = Append(ready_queue, Head(messages).msg.name)
        /\ ready_queue # << >> => current_time' = current_time
        /\ pc = "ready" =>
              \A i \in 1..Len(ready_queue) :
                  ready_queue[i] \in DOMAIN processes
                  => \E k \in 1..Len(resumed') :
                         /\ resumed'[k].proc = ready_queue[i]
                         /\ resumed'[k].time = current_time ]_vars

\* The second child of test_spawn.rs (a name only spawn creates), spawned at 2,
\* has just been resumed for the first time, at 2, its parent spawned at 0.
C24_Witness ==
    /\ pc = "drain"
    /\ 1 \in DOMAIN processes /\ processes[1].function = "parent"
    /\ \E k \in 1..Len(resumed) :
           /\ resumed[k].proc = 3
           /\ ~resumed[k].suspended
           /\ resumed[k].end = "yield"
           /\ resumed[k].time = 2
           /\ current_time = 2

\* C25: a run_for(d) started at t0 runs callbacks in non-decreasing order of
\* their scheduled time, and when it returns every event that was scheduled at
\* a time < t0 + d has left the queue and been dispatched exactly once.
C25_RunForCompletes ==
    [][ last_op'.op = "run_for" =>
          LET end == current_time + last_op'.before
              ran == SubSeq(dispatched', Len(dispatched) + 1, Len(dispatched'))
          IN  /\ \A i, j \in 1..Len(ran) :
                     i < j => ran[i].event.time <= ran[j].event.time
              /\ \A e \in event_queue :
                     e.time < end
                     => /\ e \notin event_queue'
                        /\ Cardinality({i \in 1..Len(ran) : ran[i].event = e}) = 1
      ]_vars

\* C26: whenever stats can be read (between two calls of run), the
\* queue_length of every resource r is the number of processes waiting for r.
C26_QueueLengthCountsWaiters ==
    pc = "idle" =>
        \A r \in DOMAIN resources :
            resources[r].queue_length = Len(WaitersOf(r))

\* The position in this tick's resume order at which process n was resumed.
ResumeIndex(n) ==
    CHOOSE k \in 1..Len(resumed) :
        /\ resumed[k].proc = n
        /\ \A m \in 1..(k - 1) : resumed[m].proc # n

\* C27: the messages process_lua_messages applies in one tick keep, for each
\* process, the order in which it emitted them, and the messages of a process
\* resumed earlier in the tick all come before those of one resumed later.
C27_AppliedInResumeOrder ==
    [][ pc = "drain" =>
          /\ \A n \in DOMAIN process_receivers :
                 LET own == SelectSeq(messages', LAMBDA m : m.proc = n)
                 IN  [k \in 1..Len(own) |-> own[k].msg] = process_receivers[n]
          /\ \A i, j \in 1..Len(messages') :
                 i < j => ResumeIndex(messages'[i].proc)
                              <= ResumeIndex(messages'[j].proc) ]_vars

\* C28: the messages a process emits during one resume (it is in the ready
\* queue once, and run_ready_processes resumes it) hold at most one Wait or
\* Request, and that one is the last message of the resume.
C28_OneSuspensionPerResume ==
    [][ pc = "ready" =>
          \A n \in DOMAIN processes :
              Cardinality({i \in 1..Len(ready_queue) : ready_queue[i] = n}) = 1
              => LET sent == SubSeq(process_receivers'[n],
                                    Len(process_receivers[n]) + 1,
                                    Len(process_receivers'[n]))
                     suspending == {k \in 1..Len(sent) :
                                       sent[k].kind \in {"Wait", "Request"}}
                 IN  /\ Cardinality(suspending) <= 1
                     /\ \A k \in suspending : k = Len(sent) ]_vars

\* C29: when run returns because nothing is ready and nothing waits any more,
\* every process that finished has been removed from the registry (so that
\* active_processes lists, and stats counts, unfinished processes only).
C29_FinishedAreCleanedUp ==
    last_op.op = "break" =>
        \A n \in DOMAIN processes : processes[n].state # "Finished"

\* C30: Finished is terminal: no step changes the state of a process that is
\* Finished, and resuming such a process runs none of its script (its
\* position stays and it sends nothing).
C30_FinishedIsTerminal ==
    [][ \A n \in DOMAIN processes :
            processes[n].state = "Finished"
            => /\ processes'[n].state = "Finished"
               /\ processes'[n].pos = processes[n].pos
               /\ pc = "ready" => process_receivers'[n] = process_receivers[n]
      ]_vars

\* C31: no process of the ready queue has a waiting state: a process moved to
\* the ready queue by a timed wake-up or by a grant is no longer Waiting or
\* WaitingForResource in the registry.
C31_ReadyProcessesAreNotWaiting ==
    \A i \in 1..Len(ready_queue) :
        ready_queue[i] \in DOMAIN processes
        => processes[ready_queue[i]].state \notin {"Waiting", "WaitingForResource"}

\* C32: a process has at most one entry in the timed wait set.
C32_OneTimedWaitPerProcess ==
    \A i, j \in 1..Len(waiting_for_time) :
        waiting_for_time[i][1] = waiting_for_time[j][1] => i = j

\* The times the clock may be advanced to: the wake times of the timed wait
\* set, the times of the queued events and the horizon of the run.
AdvanceTargets ==
    {waiting_for_time[k][2] : k \in 1..Len(waiting_for_time)}
    \cup {e.time : e \in event_queue}
    \cup {end_time}

\* C33: a step that advances the clock from t to t' > t sets it to the least
\* of the earliest wake time, the time of the head of the event queue and the
\* horizon, and leaves behind no timed waiter and no event earlier than t'.
C33_AdvanceToEarliest ==
    [][ current_time' > current_time =>
          /\ current_time' \in AdvanceTargets
          /\ \A t \in AdvanceTargets : current_time' <= t
          /\ \A k \in 1..Len(waiting_for_time) :
                 waiting_for_time[k][2] >= current_time'
          /\ \A e \in event_queue : e.time >= current_time' ]_vars

\* C34: a scan of the resource waiting list (check_waiting_processes) passes
\* over the entries of Finished processes: none of the names it appends to the
\* ready queue is a Finished process, and a resource whose waiters are all
\* Finished keeps its available count.
C34_FinishedWaitersAreElided ==
    [][ pc = "check" =>
          /\ \A k \in (Len(ready_queue) + 1)..Len(ready_queue') :
                 ready_queue'[k] \in DOMAIN processes
                 => processes[ready_queue'[k]].state # "Finished"
          /\ \A r \in DOMAIN resources :
                 (\A i \in 1..Len(WaitersOf(r)) :
                      /\ WaitersOf(r)[i][1] \in DOMAIN processes
                      /\ processes[WaitersOf(r)[i][1]].state = "Finished")
                 => resources'[r].available = resources[r].available ]_vars

\* The number of grants of resource r that have not been released.
Held(r) ==
    LET pairs == {h \in BagToSet(holders) : h[2] = r}
        RECURSIVE Sum(_)
        Sum(set) == IF set = {} THEN 0
                    ELSE LET h == CHOOSE x \in set : TRUE
                         IN  CopiesIn(h, holders) + Sum(set \ {h})
    IN  Sum(pairs)

\* C35: capacity is never over-committed: for every resource r the grants of
\* r not yet released are at most capacity(r), and together with available(r)
\* they make capacity(r).
C35_CapacityNotOvercommitted ==
    \A r \in DOMAIN resources :
        /\ Held(r) <= resources[r].capacity
        /\ resources[r].available + Held(r) = resources[r].capacity

\* The names of a list of <<process, ...>> entries.
NamesOf(entries) == {entries[k][1] : k \in 1..Len(entries)}

\* C36: the scheduling structures are disjoint: no process is in two of the
\* ready queue, the timed wait set and the resource waiting list, and no
\* process is in the ready queue twice.
C36_StructuresAreDisjoint ==
    LET ready == {ready_queue[k] : k \in 1..Len(ready_queue)}
    IN  /\ ready \cap NamesOf(waiting_for_time) = {}
        /\ ready \cap NamesOf(waiting_processes) = {}
        /\ NamesOf(waiting_for_time) \cap NamesOf(waiting_processes) = {}
        /\ \A i, j \in 1..Len(ready_queue) :
               ready_queue[i] = ready_queue[j] => i = j

\* C37: no wake-up is lost.  When run returns, the ready queue is empty and no
\* entry of the timed wait set has a wake time before the horizon; every
\* check_waiting_for_time moves each entry that is due to the ready queue; and
\* every run_ready_processes resumes each registered name of the ready queue.
C37_NoLostWakeUp ==
    [][ /\ (pc # "idle" /\ pc' = "idle")
           => /\ ready_queue' = << >>
              /\ \A k \in 1..Len(waiting_for_time') :
                     waiting_for_time'[k][2] >= end_time
        /\ pc = "wake"
           => /\ \A k \in 1..Len(waiting_for_time) :
                     waiting_for_time[k][2] <= current_time
                     => \E i \in (Len(ready_queue) + 1)..Len(ready_queue') :
                            ready_queue'[i] = waiting_for_time[k][1]
              /\ \A k \in 1..Len(waiting_for_time') :
                     waiting_for_time'[k][2] > current_time
        /\ pc = "ready"
           => \A i \in 1..Len(ready_queue) :
                  ready_queue[i] \in DOMAIN processes
                  => \E k \in 1..Len(resumed') : resumed'[k].proc = ready_queue[i]
      ]_vars

\* A process that slept until a time before the horizon has just been resumed
\* out of its wait, while another process is blocked on the resource and a
\* third entry of the timed wait set is still to come.
C37_Witness ==
    /\ pc = "drain"
    /\ waiting_processes # << >>
    /\ waiting_for_time # << >>
    /\ \E k \in 1..Len(resumed) :
           /\ resumed[k].suspended
           /\ resumed[k].deadline = current_time
           /\ resumed[k].deadline < end_time
           /\ resumed[k].deadline > 0

====
